---- MODULE Spec2Model ----
(***************************************************************************)
(* RadialEgoGraph (frontend/src/components/EventNode.tsx, lines 34-348):   *)
(* the fetch effect with its enrichment, the ranked working set, the       *)
(* dynamic horizon and the time -> radius mapping.                         *)
(*                                                                         *)
(* Strings are sequences of one-character strings, so that startsWith and  *)
(* slice are computed.  Times are whole seconds (Date.parse and Date.now   *)
(* give milliseconds; the code divides every difference by 1000).  A       *)
(* radius is an exact rational <<numerator, denominator>> in lowest terms. *)
(* hashStr works on 32-bit words kept as two 16-bit halves; an angle is a  *)
(* fraction of a turn in decimal limbs; a size is an exact rational, with  *)
(* <<0, 0>> for NaN.  A click records the node and what the handler did.   *)
(***************************************************************************)
EXTENDS Integers, Sequences, FiniteSets, TLC

VARIABLES
    userId,       \* prop userId of the mounted component
    mounted,      \* the component is mounted
    themeColors,  \* useThemeColors state: "null" or "resolved"
    data,         \* useState data: [nodes, links, explanations]
    eventNodes,   \* useMemo eventNodes
    horizonSec,   \* useMemo horizonSec
    now,          \* Date.now() in seconds
    fetches,      \* one record per fetch effect run, in start order
    errorLog,     \* console.error calls: the fetch each one reports
    applied,      \* history: the setData calls that changed the state
    lastResp,     \* history: the response body of the last applied setData
    nav,          \* the last node click and what it caused
    onEventClick, \* prop onEventClick: "absent" or "supplied"
    frame,        \* the last frame the force graph drew
    fg,           \* fgRef.current: 0 (unset) or the engine instance
    forces,       \* the layout forces registered on the engine
    pos,          \* the x, y the simulation engine gave each displayed node
    isDark,       \* const isDark as the current drawGuides callback closed over it
    theme,        \* localStorage "vis-theme", the system preference, <html> and ThemeToggle
    page,         \* EventPage: joined, the server's attendance, the requests
    store         \* state/currentUser: currentUser, listeners, the last notification

vars == << userId, mounted, themeColors, data, eventNodes, horizonSec, now,
           fetches, errorLog, applied, lastResp, nav, onEventClick, frame, fg, forces, pos, isDark, theme, page, store >>

(* ------------------------------ bounds -------------------------------- *)

MaxFetches == 2     \* fetch effect runs per behaviour (mount + userId changes)
MaxTicks == 1       \* clock ticks of one hour per behaviour
MaxNodes == 11      \* longest payload of the ranking specification
MaxProbe == 2       \* nodes per payload of the layout specification
MaxRequests == 3    \* requests of the event page per behaviour (first load included)

(* --------------------------- small helpers ---------------------------- *)

Max2(a, b) == IF a >= b THEN a ELSE b
Min2(a, b) == IF a <= b THEN a ELSE b

RECURSIVE Gcd(_, _)
Gcd(a, b) == IF b = 0 THEN a ELSE Gcd(b, a % b)

\* exact rational in lowest terms, d > 0, n >= 0
Rat(n, d) == LET g == Gcd(n, d) IN << n \div g, d \div g >>
\* n1/d1 < n2/d2 by continued fractions (no products, so no overflow)
RECURSIVE FracLess(_, _, _, _)
FracLess(n1, d1, n2, d2) ==
    IF n1 \div d1 # n2 \div d2 THEN n1 \div d1 < n2 \div d2
    ELSE IF n2 % d2 = 0 THEN FALSE
    ELSE IF n1 % d1 = 0 THEN TRUE
    ELSE FracLess(d2, n2 % d2, d1, n1 % d1)
RLess(a, b) == FracLess(a[1], a[2], b[1], b[2])
RLeq(a, b) == ~RLess(b, a)
RInt(k) == << k, 1 >>

\* JavaScript values that are not strings
Undefined == << "<undefined>" >>
Null == << "<null>" >>
EmptyStr == << >>

\* String(x)
String(x) ==
    IF x = Undefined THEN << "u", "n", "d", "e", "f", "i", "n", "e", "d" >>
    ELSE IF x = Null THEN << "n", "u", "l", "l" >>
    ELSE x

\* s.startsWith(p)
StartsWith(s, p) == Len(s) >= Len(p) /\ SubSeq(s, 1, Len(p)) = p
\* s.slice(k)
Slice(s, k) == SubSeq(s, k + 1, Len(s))

(* ------------------------- strings and hashing ------------------------ *)

\* the printable ASCII characters, in code order from 32 (" ") to 126 ("~");
\* code 96 is spelled out
Chars == <<
    " ", "!", "\"", "#", "$", "%", "&", "'", "(", ")", "*", "+", ",", "-", ".", "/",
    "0", "1", "2", "3", "4", "5", "6", "7", "8", "9", ":", ";", "<", "=", ">", "?",
    "@", "A", "B", "C", "D", "E", "F", "G", "H", "I", "J", "K", "L", "M", "N", "O",
    "P", "Q", "R", "S", "T", "U", "V", "W", "X", "Y", "Z", "[", "\\", "]", "^", "_",
    "<grave>", "a", "b", "c", "d", "e", "f", "g", "h", "i", "j", "k", "l", "m", "n", "o",
    "p", "q", "r", "s", "t", "u", "v", "w", "x", "y", "z", "{", "|", "}", "~" >>

\* s.charCodeAt(i) of the character c
CharCode(c) ==
    IF c = "\t" THEN 9 ELSE IF c = "\n" THEN 10
    ELSE 31 + (CHOOSE i \in 1..Len(Chars) : Chars[i] = c)

\* what reading a property of undefined or null throws
TypeError == << "<TypeError>" >>

\* a 32-bit word as << high half, low half >> of 16 bits each (two's complement)
\* ((h << 5) - h + c) | 0
HashStep(h, c) ==
    LET lo == 31 * h[2] + c
        hi == 31 * h[1] + (lo \div 65536)
    IN  << hi % 65536, lo % 65536 >>

RECURSIVE HashFrom(_, _)
HashFrom(h, s) == IF s = << >> THEN h ELSE HashFrom(HashStep(h, CharCode(Head(s))), Tail(s))

\* hashStr(s): s.length throws when s is undefined or null
HashStr(s) == IF s = Undefined \/ s = Null THEN TypeError ELSE HashFrom(<< 0, 0 >>, s)

\* Math.abs of a 32-bit word: the magnitude, up to 2^31 = << 32768, 0 >>
MathAbs(w) ==
    IF w[1] < 32768 THEN w
    ELSE << (65535 - w[1] + (IF w[2] = 0 THEN 1 ELSE 0)) % 65536, (65536 - w[2]) % 65536 >>

\* w % m of a magnitude
WordMod(w, m) == ((w[1] % m) * (65536 % m) + (w[2] % m)) % m

\* the decimal limbs << h2, h1, h0 >> (base 10^4) of a magnitude
Limbs(w) ==
    LET t == w[1] * 5536 + w[2]
        u == (t \div 10000) + w[1] * 6
    IN  << u \div 10000, u % 10000, t % 10000 >>

(* -------------------------- layout constants -------------------------- *)

DaySec == 24 * 3600
WeekSec == 7 * 24 * 3600
HourSec == 3600

\* bands that leave no gap between them
RING_BANDS_Contiguous == <<
    [min |-> 130, max |-> 190, spanSec |-> 24 * 3600],
    [min |-> 190, max |-> 290, spanSec |-> 7 * 24 * 3600],
    [min |-> 290, max |-> 390, spanSec |-> 0] >>

RING_BANDS == <<
    [min |-> 130, max |-> 190, spanSec |-> 24 * 3600],
    [min |-> 210, max |-> 290, spanSec |-> 7 * 24 * 3600],
    [min |-> 310, max |-> 390, spanSec |-> 0] >>

TopN == 10

EventPrefix == << "e", "v", "e", "n", "t", ":" >>

(* ------------------------------- nodes -------------------------------- *)

\* starts_at: absent, null, "", a string Date.parse rejects, or an ISO
\* timestamp (ts: its Date.parse value in seconds)
NoStart(k) == [kind |-> k, ts |-> 0]
Iso(t) == [kind |-> "iso", ts |-> t]

\* social_count: absent (reads as undefined), null, or a number
NoCount == [kind |-> "absent", val |-> 0]
NullCount == [kind |-> "null", val |-> 0]
Count(c) == [kind |-> "num", val |-> c]

\* a node of the payload; a property the payload omits reads as undefined
Node(id, type, score, starts_at, poster_url, event_id) ==
    [id |-> id, type |-> type, score |-> score, starts_at |-> starts_at,
     poster_url |-> poster_url, event_id |-> event_id, topic |-> Undefined,
     social_count |-> NoCount]

\* the node with a topic property
WithTopic(n, topic) == [n EXCEPT !.topic = topic]

\* the node with a social_count property
WithSocial(n, c) == [n EXCEPT !.social_count = c]

\* a check that catches a missing start but not an unparsable string
IsNaNWhenMissing(s) == s.kind \in { "absent", "null", "empty" }

\* Date.parse(n.starts_at || ""): "NaN" or seconds
IsNaN(s) == s.kind # "iso"
DateParse(s) == s.ts

(* ----------------------------- enrichment ----------------------------- *)

\* a strip that removes every leading "event:"
RECURSIVE StripAll(_)
StripAll(idStr) ==
    IF StartsWith(idStr, EventPrefix) THEN StripAll(Slice(idStr, 6)) ELSE idStr

\* idStr.startsWith("event:") ? idStr.slice(6) : idStr
StripOnce(idStr) ==
    IF StartsWith(idStr, EventPrefix) THEN Slice(idStr, 6) ELSE idStr

\* x ?? null
NullishToNull(x) == IF x = Undefined \/ x = Null THEN Null ELSE x

\* the callback of resp.nodes.map: {...n, event_id, poster_url: n.poster_url ?? null}
Enrich(n) ==
    [n EXCEPT !.event_id = IF n.type = "event" THEN StripOnce(String(n.id)) ELSE Undefined,
              !.poster_url = NullishToNull(n.poster_url)]

EnrichAll(nodes) == [i \in 1..Len(nodes) |-> Enrich(nodes[i])]

(* ------------------------------ ranking ------------------------------- *)

\* Array.prototype.filter
RECURSIVE FilterEvents(_)
FilterEvents(s) ==
    IF s = << >> THEN << >>
    ELSE IF Head(s).type = "event" THEN << Head(s) >> \o FilterEvents(Tail(s))
    ELSE FilterEvents(Tail(s))

\* the comparator (a, b) => b.score - a.score
Compare(a, b) == b.score - a.score

\* an insertion that puts x in front of the elements it ties with
RECURSIVE InsertBeforeTies(_, _)
InsertBeforeTies(sorted, x) ==
    IF sorted = << >> THEN << x >>
    ELSE IF Compare(Head(sorted), x) >= 0
         THEN << x >> \o sorted
         ELSE << Head(sorted) >> \o InsertBeforeTies(Tail(sorted), x)

\* stable insertion of x behind every element it does not precede
RECURSIVE InsertStable(_, _)
InsertStable(sorted, x) ==
    IF sorted = << >> THEN << x >>
    ELSE IF Compare(Head(sorted), x) > 0
         THEN << x >> \o sorted
         ELSE << Head(sorted) >> \o InsertStable(Tail(sorted), x)

\* Array.prototype.sort with the comparator (stable since ES2019)
RECURSIVE SortByScore(_, _)
SortByScore(done, rest) ==
    IF rest = << >> THEN done
    ELSE SortByScore(InsertStable(done, Head(rest)), Tail(rest))

\* evs.slice(0, 10)
Take(s, k) == SubSeq(s, 1, Min2(k, Len(s)))

EventNodes(nodes) == Take(SortByScore(<< >>, FilterEvents(nodes)), TopN)

(* ------------------------------ horizon ------------------------------- *)

\* the deltas (ts - now) / 1000 of the nodes with a parsable, future start
FutureDeltas(evs, t) ==
    { DateParse(evs[i].starts_at) - t : i \in
        { j \in 1..Len(evs) :
            ~IsNaN(evs[j].starts_at) /\ DateParse(evs[j].starts_at) > t } }

SetMax(S, floor) == CHOOSE m \in S \cup {floor} : \A x \in S \cup {floor} : x <= m

\* the maximum without the 24h floor
HorizonSecNoFloor(evs, t) == SetMax(FutureDeltas(evs, t), 0)

\* Math.max(24 * 3600, ...fut, 24 * 3600)
HorizonSec(evs, t) == SetMax(FutureDeltas(evs, t), 24 * 3600)

(* ------------------------------- radius ------------------------------- *)

\* an interpolation that drops the band's inner edge
LerpNoOffset(b, num, den) ==
    LET g == Gcd(num, den)
        p == num \div g
        q == den \div g
    IN  Rat(p * (b.max - b.min), q)

\* an interpolation that runs from the outer edge inwards
LerpReversed(b, num, den) ==
    LET g == Gcd(num, den)
        p == num \div g
        q == den \div g
    IN  Rat(b.max * q - p * (b.max - b.min), q)

\* b.min + (num / den) * (b.max - b.min)
Lerp(b, num, den) ==
    LET g == Gcd(num, den)
        p == num \div g
        q == den \div g
    IN  Rat(b.min * q + p * (b.max - b.min), q)

RadiusForTime(n, t, horizon) ==
    IF IsNaN(n.starts_at) THEN RInt(RING_BANDS[3].max)
    ELSE LET dt == Max2(0, DateParse(n.starts_at) - t) IN
         IF dt <= 24 * 3600
         THEN Lerp(RING_BANDS[1], dt, RING_BANDS[1].spanSec)
         ELSE IF dt <= 7 * 24 * 3600
         THEN Lerp(RING_BANDS[2], dt - 24 * 3600, RING_BANDS[2].spanSec - 24 * 3600)
         ELSE IF horizon > 0
              THEN Lerp(RING_BANDS[3], Min2(dt, horizon), horizon)
              ELSE Lerp(RING_BANDS[3], 1, 2)

(* -------------------------------- angle ------------------------------- *)

\* the golden ratio fraction 0.61803398875 as decimal limbs of 10^-12
Phi == << 6180, 3398, 8750 >>

\* (h * phi) % 1 as decimal limbs << r2, r1, r0 >> of 10^-12: the fraction of
\* a full turn (exact, where the code rounds to a double)
Turn(h) ==
    LET c0 == h[3] * Phi[3]
        c1 == h[3] * Phi[2] + h[2] * Phi[3] + (c0 \div 10000)
        c2 == h[3] * Phi[1] + h[2] * Phi[2] + h[1] * Phi[3] + (c1 \div 10000)
    IN  << c2 % 10000, c1 % 10000, c0 % 10000 >>

\* an angle seeded with the node's score as well
AngleForEventSeeded(n) ==
    Turn(Limbs(MathAbs(HashStr(n.id \o << Chars[(n.score % 10) + 17] >>))))

\* angleForEvent(n) in turns: the angle is this fraction times 2 * Math.PI
AngleForEvent(n) ==
    IF HashStr(n.id) = TypeError THEN TypeError
    ELSE Turn(Limbs(MathAbs(HashStr(n.id))))

(* --------------------------- response bodies -------------------------- *)

NoBody == [kind |-> "none", hasNodes |-> FALSE, nodes |-> << >>,
           edges |-> << >>, scores |-> {}, explanations |-> {}]

\* a body res.json() rejects
Unparsable == [NoBody EXCEPT !.kind = "unparsable"]

\* a JSON body without a nodes array (an error object of the backend)
NoNodesBody == [NoBody EXCEPT !.kind = "json"]

\* a GraphResponse; scores: the redundant map, as pairs << id, score >>
GraphResponse(nodes, edges, scores, explanations) ==
    [kind |-> "json", hasNodes |-> TRUE, nodes |-> nodes, edges |-> edges,
     scores |-> scores, explanations |-> explanations]

Id1 == EventPrefix \o << "1" >>
Id2 == EventPrefix \o << "2" >>
Id7 == << "7" >>
IdP == << "p", ":", "9" >>

\* the scores map that mirrors the nodes' own scores
Mirror(nodes) == { << nodes[i].id, nodes[i].score >> : i \in 1..Len(nodes) }
\* a scores map that disagrees with every node (reverses the ranking)
Disagree(nodes) == { << nodes[i].id, 0 - nodes[i].score >> : i \in 1..Len(nodes) }

BodyA ==
    LET ns == << WithTopic(Node(Id1, "event", 5, Iso(2 * HourSec), << "a" >>, Undefined),
                           << "M", "u", "s", "i", "c" >>),
                 Node(IdP, "person", 9, NoStart("absent"), Undefined, Undefined) >>
    IN  GraphResponse(ns, << [source |-> IdP, target |-> Id1] >>, Mirror(ns), { Id1 })

BodyB ==
    LET ns == << Node(Id7, "event", 3, NoStart("garbage"), Null, Undefined),
                 Node(Id2, "event", 3, Iso(10 * DaySec), Undefined, Undefined) >>
    IN  GraphResponse(ns, << >>, Disagree(ns), { })

\* the event of BodyA again, behind another node and with other fields
BodyC ==
    LET ns == << WithTopic(Node(Id2, "event", 4, Iso(2 * DaySec), Null, Undefined),
                           << "m", "u", "s", "i", "c" >>),
                 WithTopic(Node(Id1, "event", 1, NoStart("null"), Undefined, << "9" >>),
                           << " ", "M", "u", "s", "i", "c", "\t" >>) >>
    IN  GraphResponse(ns, << >>, Mirror(ns), { Id2 })

\* what the server may answer in the lifecycle specification
Bodies == { Unparsable, NoNodesBody, BodyA, BodyB }

UserIds == { 1, 2 }

(* --------------------------- component state -------------------------- *)

EmptyData == [nodes |-> << >>, links |-> << >>, explanations |-> {}]

\* no node was clicked
NoNode == [type |-> "none"]
NoNav == [node |-> NoNode, cb |-> "absent", calls |-> << >>, hrefs |-> << >>]

\* no frame of the force graph was drawn
NoGuides == [stroke |-> "", rings |-> << >>, labels |-> << >>, fill |-> ""]
NoFrame == [theme |-> "none", circles |-> << >>, guides |-> NoGuides, stored |-> "null"]

\* EventPage after its first render and mount effect: joined false, the
\* first attendance load sent, the server holding no attendance
NewPage == [joined |-> FALSE, server |-> FALSE,
            reqs |-> << [kind |-> "load", pc |-> "sent", attending |-> FALSE] >>]

\* no setCurrentUser call was made
NoCall == [made |-> FALSE, arg |-> 0, active |-> {}, ended |-> {}, calls |-> << >>]

\* the module state of state/currentUser: currentUser null (0), no listener.
\* History: active, the listeners subscribed and not unsubscribed since;
\* ended, those unsubscribed and not subscribed again; last, the last
\* setCurrentUser call with active and ended as they were when it started
NewStore == [currentUser |-> 0, listeners |-> << >>, active |-> {}, ended |-> {},
             last |-> NoCall]

\* a browser profile that never ran the application, the system preferring
\* light: nothing stored under "vis-theme", no class on <html>, ThemeToggle
\* not mounted
NoTheme == [stored |-> "null", prefersDark |-> FALSE, rootDark |-> FALSE,
            started |-> FALSE, toggle |-> "unmounted", isDark |-> FALSE,
            clicked |-> FALSE]

\* no force registered by the component: the engine's defaults
NoForces == [registered |-> FALSE, evs |-> << >>, horizon |-> 0]

\* a node the engine has not positioned yet: x and y are undefined
NoPos == [set |-> FALSE, x |-> 0, y |-> 0]

\* an effect that registers its forces once and keeps them
ForcesEffectOnce(ref, evs, horizon, old) ==
    IF ref = 0 \/ old.registered THEN old
    ELSE [registered |-> TRUE, evs |-> evs, horizon |-> horizon]

\* the forces effect, run after a render that changed eventNodes, nodeValScale
\* or horizonSec: nothing without an engine, else the radial, x, y and collide
\* forces are replaced by ones closing over this render's values
ForcesEffect(ref, evs, horizon, old) ==
    IF ref = 0 THEN old
    ELSE [registered |-> TRUE, evs |-> evs, horizon |-> horizon]

NewFetch(u, d) == [userId |-> u, pc |-> "fetch", body |-> NoBody, dataAtStart |-> d]

\* first render committed, effects run: the fetch for the first userId is in
\* flight, the theme lookup has not resolved
Init ==
    /\ userId = 1
    /\ mounted = TRUE
    /\ themeColors = "null"
    /\ data = EmptyData
    /\ eventNodes = << >>
    /\ horizonSec = HorizonSec(<< >>, 0)
    /\ now = 0
    /\ fetches = << NewFetch(1, EmptyData) >>
    /\ errorLog = << >>
    /\ applied = << >>
    /\ lastResp = NoBody
    /\ nav = NoNav
    /\ onEventClick = "absent"
    /\ frame = NoFrame
    /\ fg = 0
    /\ forces = NoForces
    /\ pos = << >>
    /\ isDark = "null"
    /\ theme = NoTheme
    /\ page = NewPage
    /\ store = NewStore

\* the fetch effect's consumer is torn down: the component unmounted, or a
\* later run of the effect (a userId change) replaced it
TornDown(i) == ~mounted \/ i < Len(fetches)

Pending(i) == fetches[i].pc \in { "fetch", "json", "then" }

\* a catch handler that resets the graph on failure
CatchResets(i) ==
    /\ fetches' = [fetches EXCEPT ![i].pc = "failed", ![i].body = NoBody]
    /\ errorLog' = Append(errorLog, i)
    /\ data' = EmptyData
    /\ eventNodes' = << >>
    /\ UNCHANGED << horizonSec, applied, lastResp >>

\* .catch(console.error): the error is logged, no setData
Catch(i) ==
    /\ fetches' = [fetches EXCEPT ![i].pc = "failed", ![i].body = NoBody]
    /\ errorLog' = Append(errorLog, i)
    /\ UNCHANGED << data, eventNodes, horizonSec, applied, lastResp >>

\* an effect that clears the graph while loading
DataClearedWhilePending(d) == EmptyData

\* the state while a fetch is pending: the effect starts the fetch and sets nothing
DataWhilePending(d) == d

\* useEffect(..., [userId]) after a userId change
ChangeUserId(u) ==
    /\ mounted
    /\ u # userId
    /\ Len(fetches) < MaxFetches
    /\ userId' = u
    /\ data' = DataWhilePending(data)
    /\ fetches' = Append(fetches, NewFetch(u, data))
    /\ UNCHANGED << mounted, themeColors, eventNodes, horizonSec, now,
                    errorLog, applied, lastResp, nav, onEventClick, frame, fg, forces, pos, isDark, theme, page, store >>

Unmount ==
    /\ mounted
    /\ mounted' = FALSE
    /\ fg' = 0
    /\ forces' = NoForces
    /\ UNCHANGED << userId, themeColors, data, eventNodes, horizonSec, now,
                    fetches, errorLog, applied, lastResp, nav, onEventClick, frame, pos, isDark, theme, page, store >>

\* useThemeColors: setColors(getThemeColors(ref.current)); the render it
\* causes reads isDark from localStorage, makes a new drawGuides (its
\* dependency themeColors changed) and mounts the force graph, which sets
\* fgRef.current (no dependency of the forces effect changed: it does not run)
ThemeResolve ==
    /\ mounted
    /\ themeColors = "null"
    /\ themeColors' = "resolved"
    /\ fg' = 1
    /\ isDark' = theme.stored
    /\ UNCHANGED << userId, mounted, data, eventNodes, horizonSec, now,
                    fetches, errorLog, applied, lastResp, nav, onEventClick, frame,
                    forces, pos, theme, page, store >>

Tick ==
    /\ now < MaxTicks * HourSec
    /\ now' = now + HourSec
    /\ UNCHANGED << userId, mounted, themeColors, data, eventNodes, horizonSec,
                    fetches, errorLog, applied, lastResp, nav, onEventClick, frame, fg, forces, pos, isDark, theme, page, store >>

\* fetch(...) rejects
NetworkReject(i) ==
    /\ fetches[i].pc = "fetch"
    /\ Catch(i)
    /\ UNCHANGED << userId, mounted, themeColors, now, nav, onEventClick, frame, fg, forces, pos, isDark, theme, page, store >>

\* fetch(...) resolves with a response carrying body b
NetworkRespond(i, b) ==
    /\ fetches[i].pc = "fetch"
    /\ fetches' = [fetches EXCEPT ![i].pc = "json", ![i].body = b]
    /\ UNCHANGED << userId, mounted, themeColors, data, eventNodes, horizonSec,
                    now, errorLog, applied, lastResp, nav, onEventClick, frame, fg, forces, pos, isDark, theme, page, store >>

\* .then(res => res.json())
ResJson(i) ==
    /\ fetches[i].pc = "json"
    /\ IF fetches[i].body.kind = "unparsable"
       THEN Catch(i)
       ELSE /\ fetches' = [fetches EXCEPT ![i].pc = "then"]
            /\ UNCHANGED << data, eventNodes, horizonSec, errorLog, applied, lastResp >>
    /\ UNCHANGED << userId, mounted, themeColors, now, nav, onEventClick, frame, fg, forces, pos, isDark, theme, page, store >>

\* the argument of setData
SetData(resp) ==
    [nodes |-> EnrichAll(resp.nodes), links |-> resp.edges,
     explanations |-> resp.explanations]

\* .then((resp) => { ...; setData(...) }) and the render it causes
ThenApply(i) ==
    /\ fetches[i].pc = "then"
    /\ IF ~fetches[i].body.hasNodes
       THEN Catch(i) /\ UNCHANGED << forces, pos >>
       ELSE /\ fetches' = [fetches EXCEPT ![i].pc = "done", ![i].body = NoBody]
            /\ UNCHANGED errorLog
            /\ IF mounted
               THEN /\ data' = SetData(fetches[i].body)
                    /\ eventNodes' = EventNodes(data'.nodes)
                    /\ horizonSec' = HorizonSec(eventNodes', now)
                    /\ applied' = Append(applied,
                          [fetch |-> i, tornDown |-> TornDown(i), at |-> now])
                    /\ lastResp' = fetches[i].body
                    /\ forces' = ForcesEffect(fg, eventNodes', horizonSec', forces)
                    /\ pos' = [k \in 1..Len(eventNodes') |-> NoPos]
               ELSE UNCHANGED << data, eventNodes, horizonSec, applied, lastResp,
                                 forces, pos >>
    /\ UNCHANGED << userId, mounted, themeColors, now, nav, onEventClick, frame, fg,
                    isDark, theme, page, store >>

Truthy(s) == s # Undefined /\ s # Null /\ s # EmptyStr

Hex == << "0", "1", "2", "3", "4", "5", "6", "7", "8", "9", "A", "B", "C", "D", "E", "F" >>

\* the characters encodeURIComponent leaves as they are
Unreserved(c) ==
    IF c \in { "\t", "\n" } THEN FALSE
    ELSE \/ CharCode(c) \in 48..57
         \/ CharCode(c) \in 65..90
         \/ CharCode(c) \in 97..122
         \/ c \in { "-", "_", ".", "!", "~", "*", "'", "(", ")" }

\* encodeURIComponent(s) of ASCII characters: a percent sign and two
\* hexadecimal digits for every other character
RECURSIVE EncodeURIComponent(_)
EncodeURIComponent(s) ==
    IF s = << >> THEN << >>
    ELSE (IF Unreserved(Head(s)) THEN << Head(s) >>
          ELSE << "%", Hex[(CharCode(Head(s)) \div 16) + 1],
                  Hex[(CharCode(Head(s)) % 16) + 1] >>)
         \o EncodeURIComponent(Tail(s))

EventPagePath == << "/", "e", "v", "e", "n", "t", "s", "/", "e", "v", "e", "n", "t", "p", "a", "g", "e", "/" >>

\* a handler that calls the callback and changes the location as well
HandleBoth(n, cb) ==
    IF n.type = "event" /\ Truthy(n.event_id)
    THEN [node |-> n, cb |-> cb, calls |-> << n.event_id >>,
          hrefs |-> << EventPagePath \o EncodeURIComponent(String(n.event_id)) >>]
    ELSE [node |-> n, cb |-> cb, calls |-> << >>, hrefs |-> << >>]

\* a handler that does not test the event_id
HandleUntested(n, cb) ==
    IF n.type = "event"
    THEN IF cb # "absent"
         THEN [node |-> n, cb |-> cb, calls |-> << n.event_id >>, hrefs |-> << >>]
         ELSE [node |-> n, cb |-> cb, calls |-> << >>,
               hrefs |-> << EventPagePath \o EncodeURIComponent(String(n.event_id)) >>]
    ELSE [node |-> n, cb |-> cb, calls |-> << >>, hrefs |-> << >>]

\* handleNodeClick(node) with the prop onEventClick = cb: the calls of the
\* callback and the assignments to window.location.href it makes
Handle(n, cb) ==
    IF n.type = "event" /\ Truthy(n.event_id)
    THEN IF cb # "absent"
         THEN [node |-> n, cb |-> cb, calls |-> << n.event_id >>, hrefs |-> << >>]
         ELSE [node |-> n, cb |-> cb, calls |-> << >>,
               hrefs |-> << EventPagePath \o EncodeURIComponent(String(n.event_id)) >>]
    ELSE [node |-> n, cb |-> cb, calls |-> << >>, hrefs |-> << >>]

\* a render that shows the force graph whatever the theme lookup gave
GraphRenderedUngated == mounted

\* {themeColors && (<ForceGraph2D ... />)}
GraphRendered == mounted /\ themeColors # "null"

\* onNodeClick of the rendered graph, on the k-th displayed node
HandleNodeClick(k) ==
    /\ GraphRendered
    /\ k \in 1..Len(eventNodes)
    /\ nav' = Handle(eventNodes[k], onEventClick)
    /\ UNCHANGED << userId, mounted, themeColors, data, eventNodes, horizonSec,
                    now, fetches, errorLog, applied, lastResp, onEventClick, frame, fg, forces, pos, isDark, theme, page, store >>

\* the parent renders the component with another onEventClick prop
ChangeOnEventClick(cb) ==
    /\ mounted
    /\ cb # onEventClick
    /\ onEventClick' = cb
    /\ UNCHANGED << userId, mounted, themeColors, data, eventNodes, horizonSec,
                    now, fetches, errorLog, applied, lastResp, nav, frame, fg, forces, pos, isDark, theme, page, store >>

Next ==
    \/ \E u \in UserIds : ChangeUserId(u)
    \/ Unmount
    \/ ThemeResolve
    \/ Tick
    \/ \E i \in 1..Len(fetches) : NetworkReject(i)
    \/ \E i \in 1..Len(fetches) : \E b \in Bodies : NetworkRespond(i, b)
    \/ \E i \in 1..Len(fetches) : ResJson(i)
    \/ \E i \in 1..Len(fetches) : ThenApply(i)
    \/ \E k \in 1..TopN : HandleNodeClick(k)

Spec == Init /\ [][Next]_vars

(* ----------------------- fetch lifecycle claims ----------------------- *)

Last(s) == s[Len(s)]

\* the step in which fetch i fails
Fails(i) == Pending(i) /\ fetches'[i].pc = "failed"

\* C2 as stated: after a fetch fails, the graph state is the state before
\* that fetch started (looked at in the runs in which no payload of a
\* torn-down fetch was applied, so that C3 plays no part).
C2_FailureRestoresStateAtStart ==
    [][\A i \in 1..Len(fetches) :
          (Fails(i) /\ \A k \in 1..Len(applied) : ~applied[k].tornDown)
              => data' = fetches[i].dataAtStart]_vars

\* C2, amended: a failing fetch (network rejection, unparsable body, body
\* without nodes) leaves nodes, links and explanations and the working set
\* exactly as they were when the failure was handled, and logs the error once.
C2_FailureLeavesState ==
    [][\A i \in 1..Len(fetches) : Fails(i) =>
          /\ data' = data
          /\ eventNodes' = eventNodes
          /\ errorLog' = Append(errorLog, i)]_vars

\* a fetch that started on a non-empty graph has failed and is logged, and
\* the graph is still displayed
C2_Witness ==
    \E i \in 1..Len(fetches) :
        /\ fetches[i].pc = "failed"
        /\ fetches[i].dataAtStart # EmptyData
        /\ \E k \in 1..Len(errorLog) : errorLog[k] = i
        /\ data # EmptyData

\* C3: a fetch whose consumer was torn down before it resolved is discarded:
\* no setData of such a fetch is applied.
C3_TornDownFetchDiscarded ==
    \A k \in 1..Len(applied) : ~applied[k].tornDown

\* C4: while a fetch is pending the graph state is the last applied payload
\* (empty before the first), and every displayed node can be clicked.
C4_PendingKeepsGraphInteractive ==
    (\E i \in 1..Len(fetches) : Pending(i)) =>
        /\ data.links = lastResp.edges
        /\ data.explanations = lastResp.explanations
        /\ Len(data.nodes) = Len(lastResp.nodes)
        /\ \A j \in 1..Len(data.nodes) :
              /\ data.nodes[j].id = lastResp.nodes[j].id
              /\ data.nodes[j].type = lastResp.nodes[j].type
              /\ data.nodes[j].score = lastResp.nodes[j].score
              /\ data.nodes[j].starts_at = lastResp.nodes[j].starts_at
        /\ (mounted /\ themeColors = "resolved") =>
              \A k \in 1..Len(eventNodes) : ENABLED HandleNodeClick(k)

\* a fetch is pending while an applied payload is displayed and was clicked
C4_Witness ==
    /\ \E i \in 1..Len(fetches) : Pending(i)
    /\ mounted /\ themeColors = "resolved"
    /\ eventNodes # << >>
    /\ nav # NoNav

(* ----------------------- ranking specification ------------------------ *)

Digits == << "0", "1", "2", "3", "4", "5", "6", "7", "8", "9" >>

RECURSIVE DecStr(_)
DecStr(i) ==
    IF i < 10 THEN << Digits[i + 1] >>
    ELSE DecStr(i \div 10) \o << Digits[(i % 10) + 1] >>

\* a payload of len nodes "event:1".."event:len" with the scores pat; node i
\* starts (i - 3) days from time 0.  Node k (when k > 0) is special: a person
\* node with the highest score, or an event 30 days ahead.
RankNodes(len, pat, k, kind) ==
    [i \in 1..len |->
        Node(EventPrefix \o DecStr(i),
             IF i = k /\ kind = "person" THEN "person" ELSE "event",
             IF i = k /\ kind = "person" THEN 3 ELSE pat[i],
             IF i = k /\ kind = "far" THEN Iso(30 * DaySec) ELSE Iso((i - 3) * DaySec),
             Undefined, Undefined)]

\* a payload of the ranking specification; the scores map mirrors the nodes
\* in the payloads without a special node and disagrees in the others
RankBody(len, pat, k, kind) ==
    LET ns == RankNodes(len, pat, k, kind)
    IN  GraphResponse(ns, << >>, IF k = 0 THEN Mirror(ns) ELSE Disagree(ns), {})

\* the special node is absent, or the first or the last node of the payload
Specials(len) ==
    { << 0, "none" >> } \cup ((({1, len} \ {0}) \X {"person", "far"}))

\* the fetch of the mounted component answers with any ranking payload
NextRank ==
    \/ /\ fetches[1].pc = "fetch"
       /\ \E len \in 0..MaxNodes : \E pat \in [1..len -> {1, 2}] :
             \E sp \in Specials(len) :
                NetworkRespond(1, RankBody(len, pat, sp[1], sp[2]))
    \/ ResJson(1)
    \/ ThenApply(1)

SpecRank == Init /\ [][NextRank]_vars

EventIdx(ns) == { j \in 1..Len(ns) : ns[j].type = "event" }
PosOf(ns, id) == CHOOSE j \in 1..Len(ns) : ns[j].id = id
InSeq(x, s) == \E a \in 1..Len(s) : s[a] = x

\* a ranks before b: higher own score, or the same score and earlier in the payload
RanksBefore(ns, a, b) ==
    \/ a.score > b.score
    \/ a.score = b.score /\ PosOf(ns, a.id) < PosOf(ns, b.id)

\* C1: the working set is the event nodes with the TopN highest own scores
\* (all of them when fewer), in descending score order, ties in payload order;
\* every event node left out ranks behind every node kept.
C1_TopTenByOwnScore ==
    LET ns == data.nodes IN
    /\ Len(eventNodes) = Min2(TopN, Cardinality(EventIdx(ns)))
    /\ \A a \in 1..Len(eventNodes) :
          \E j \in EventIdx(ns) : ns[j] = eventNodes[a]
    /\ \A a, b \in 1..Len(eventNodes) :
          a < b => RanksBefore(ns, eventNodes[a], eventNodes[b])
    /\ \A j \in EventIdx(ns) :
          ~InSeq(ns[j], eventNodes) =>
              \A a \in 1..Len(eventNodes) : RanksBefore(ns, eventNodes[a], ns[j])

\* more than TopN event nodes, the last one kept ties with one left out, and
\* the scores map of the payload disagrees with the nodes
C1_Witness ==
    /\ Len(eventNodes) = TopN
    /\ \E j \in EventIdx(data.nodes) :
          /\ ~InSeq(data.nodes[j], eventNodes)
          /\ data.nodes[j].score = eventNodes[TopN].score
    /\ lastResp.scores # Mirror(lastResp.nodes)

\* the Date.now() of the render that computed horizonSec
RenderedAt == IF applied = << >> THEN 0 ELSE Last(applied).at

FutureIdx(evs, t) ==
    { j \in 1..Len(evs) : evs[j].starts_at.kind = "iso" /\ evs[j].starts_at.ts > t }

\* C8: the horizon is max(24h, the largest future delta of the working set):
\* never below 24h, exactly 24h without a future event, and a node outside
\* the working set has no influence.
C8_HorizonIsFlooredMax ==
    LET F == FutureIdx(eventNodes, RenderedAt) IN
    /\ horizonSec >= DaySec
    /\ F = {} => horizonSec = DaySec
    /\ \A j \in F : eventNodes[j].starts_at.ts - RenderedAt <= horizonSec
    /\ \/ horizonSec = DaySec
       \/ \E j \in F : eventNodes[j].starts_at.ts - RenderedAt = horizonSec

\* an event outside the working set starts later than the horizon reaches,
\* and the horizon is above its floor
C8_Witness ==
    /\ horizonSec > DaySec
    /\ \E j \in EventIdx(data.nodes) :
          /\ ~InSeq(data.nodes[j], eventNodes)
          /\ data.nodes[j].starts_at.ts - RenderedAt > horizonSec

(* ----------------------- payload specification ------------------------ *)

\* start times around the band boundaries, seen from time 0 and one tick later
ProbeTimes ==
    { 0 - HourSec, 0, 2 * HourSec, DaySec, DaySec + 1, DaySec + HourSec,
      DaySec + HourSec + 1, 3 * DaySec, WeekSec, WeekSec + 1, WeekSec + HourSec,
      WeekSec + HourSec + 1, 10 * DaySec, 30 * DaySec }

ProbeStarts ==
    { NoStart(k) : k \in { "absent", "null", "empty", "garbage" } }
        \cup { Iso(t) : t \in ProbeTimes }

\* a payload of event nodes "event:1".."event:len" of equal score that start
\* at the given times
TimedBody(starts) ==
    LET ns == [i \in 1..Len(starts) |->
                  Node(EventPrefix \o DecStr(i), "event", 1, starts[i], Null, Undefined)]
    IN  GraphResponse(ns, << >>, Mirror(ns), {})

ProbeIds ==
    { EventPrefix \o << "1", "2" >>, << "1", "2" >>,
      EventPrefix \o EventPrefix \o << "3" >>, EventPrefix,
      << "x" >> \o EventPrefix \o << "1" >>, << "e", "v", "e", "n", "t" >> }

ProbeTypes == { "event", "person", "topic" }
ProbePosters == { Undefined, Null, EmptyStr, << "p" >> }
ProbeEventIds == { Undefined, << "9" >> }

\* a payload of one node with the given raw fields
FieldBody(id, type, poster_url, event_id) ==
    LET ns == << Node(id, type, 1, Iso(2 * HourSec), poster_url, event_id) >>
    IN  GraphResponse(ns, << >>, Mirror(ns), {})

ProbeTopics ==
    { Undefined, Null, EmptyStr, << " " >>, << " ", "\t", "\n" >>,
      << "o", "t", "h", "e", "r" >>, << "O", "t", "h", "e", "r" >>,
      << "O", "T", "H", "E", "R" >>, << " ", "o", "T", "h", "E", "r", " " >>,
      << "o", "t", "h", "e", "r", "s" >>, << "o", " ", "t", "h", "e", "r" >>,
      << "M", "u", "s", "i", "c" >>, << " ", "M", "u", "s", "i", "c", "\t" >>,
      << "m", "u", "s", "i", "c" >>, << "A", "r", "t" >>, << "0" >> }

\* a payload of event nodes "event:1".."event:len" with the given topics
TopicBody(topics) ==
    LET ns == [i \in 1..Len(topics) |->
                  WithTopic(Node(EventPrefix \o DecStr(i), "event", i, Iso(2 * HourSec),
                                 Null, Undefined), topics[i])]
    IN  GraphResponse(ns, << >>, Mirror(ns), {})

ProbeSocial ==
    { NoCount, NullCount } \cup { Count(c) : c \in { -1, 0, 1, 2, 3, 4, 5, 6, 100 } }

\* a payload of event nodes "event:1".."event:len" with the given social counts
SocialBody(counts) ==
    LET ns == [i \in 1..Len(counts) |->
                  WithSocial(Node(EventPrefix \o DecStr(i), "event", i, Iso(2 * HourSec),
                                  Null, Undefined), counts[i])]
    IN  GraphResponse(ns, << >>, Mirror(ns), {})

\* the topics of the legend payloads
LegendTopics ==
    << << "M", "u", "s", "i", "c" >>, << " ", "M", "u", "s", "i", "c", "\t" >>, << "m", "u", "s", "i", "c" >>, << "A", "r", "t" >>, Undefined,
       << "O", "t", "h", "e", "r" >>, << "o", "t", "h", "e", "r" >>, << " " >>, << "T", "e", "c", "h" >>, << "F", "o", "o", "d" >>, << "F", "i", "l", "m" >>, << "Z", "o", "o" >> >>

\* a payload of len event nodes in rank order, node i with the topic
\* LegendTopics[i + off] (cyclically), behind a person node with a topic of
\* its own
LegendBody(len, off) ==
    LET ns == << WithTopic(Node(IdP, "person", 200, NoStart("absent"), Undefined, Undefined),
                           << "S", "p", "o", "r", "t", "s" >>) >>
                \o [i \in 1..len |->
                      WithTopic(Node(EventPrefix \o DecStr(i), "event", 100 - i,
                                     Iso(2 * HourSec), Null, Undefined),
                                LegendTopics[((i + off - 1) % Len(LegendTopics)) + 1])]
    IN  GraphResponse(ns, << >>, Mirror(ns), {})

ProbeScores == { 0, 1, 2, 5 }

\* a payload of event nodes "event:1".."event:len" with the given scores that
\* start two hours from time 0
ScoredBody(scores) ==
    LET ns == [i \in 1..Len(scores) |->
                  Node(EventPrefix \o DecStr(i), "event", scores[i], Iso(2 * HourSec),
                       Null, Undefined)]
    IN  GraphResponse(ns, << >>, Mirror(ns), {})

\* the fetch of the mounted component answers with any probe payload; the
\* clock advances
NextPayload ==
    \/ /\ fetches[1].pc = "fetch"
       /\ \E len \in 1..MaxProbe : \E starts \in [1..len -> ProbeStarts] :
             NetworkRespond(1, TimedBody(starts))
    \/ /\ fetches[1].pc = "fetch"
       /\ \E id \in ProbeIds : \E type \in ProbeTypes :
             \E poster_url \in ProbePosters : \E event_id \in ProbeEventIds :
                NetworkRespond(1, FieldBody(id, type, poster_url, event_id))
    \/ /\ fetches[1].pc = "fetch"
       /\ \E len \in 1..(MaxProbe + 1) : \E scores \in [1..len -> ProbeScores] :
             NetworkRespond(1, ScoredBody(scores))
    \/ /\ fetches[1].pc = "fetch"
       /\ \E len \in 1..MaxProbe : \E topics \in [1..len -> ProbeTopics] :
             NetworkRespond(1, TopicBody(topics))
    \/ /\ fetches[1].pc = "fetch"
       /\ \E len \in 1..MaxProbe : \E counts \in [1..len -> ProbeSocial] :
             NetworkRespond(1, SocialBody(counts))
    \/ /\ fetches[1].pc = "fetch"
       /\ \E len \in 1..(MaxNodes + 1) : \E off \in 0..(Len(LegendTopics) - 1) :
             NetworkRespond(1, LegendBody(len, off))
    \/ ResJson(1)
    \/ ThenApply(1)
    \/ Tick

SpecPayload == Init /\ [][NextPayload]_vars

(* --------------------------- enrichment claims ------------------------ *)

HasEventPrefix(id) ==
    Len(id) >= Len(EventPrefix) /\ \A c \in 1..Len(EventPrefix) : id[c] = EventPrefix[c]

\* what C5 says of every node: the fields the enrichment does not touch, the
\* poster and the derived id of an event node
EnrichedAsStated(r, d) ==
    /\ d.id = r.id /\ d.type = r.type /\ d.score = r.score
    /\ d.starts_at = r.starts_at
    /\ d.poster_url = IF r.poster_url = Undefined THEN Null ELSE r.poster_url
    /\ r.type = "event" =>
          IF HasEventPrefix(r.id) THEN EventPrefix \o d.event_id = r.id
          ELSE d.event_id = r.id

\* C5 as stated: an event node gets its id with one leading "event:" removed;
\* a non-event node keeps every field, but for a null poster when absent.
C5_NonEventUnchanged ==
    lastResp.hasNodes =>
        /\ Len(data.nodes) = Len(lastResp.nodes)
        /\ \A j \in 1..Len(data.nodes) :
              /\ EnrichedAsStated(lastResp.nodes[j], data.nodes[j])
              /\ lastResp.nodes[j].type # "event" =>
                    data.nodes[j].event_id = lastResp.nodes[j].event_id

\* C5, amended: an event node gets its id with one leading "event:" removed;
\* a non-event node keeps every field, but for a null poster when absent and
\* an event_id that is reset to undefined.
C5_EnrichedFields ==
    lastResp.hasNodes =>
        /\ Len(data.nodes) = Len(lastResp.nodes)
        /\ \A j \in 1..Len(data.nodes) :
              /\ EnrichedAsStated(lastResp.nodes[j], data.nodes[j])
              /\ lastResp.nodes[j].type # "event" =>
                    data.nodes[j].event_id = Undefined

\* applied: an event node whose id repeats the prefix keeps the second one,
\* or a non-event node without a poster that came with an event_id
C5_Witness ==
    /\ lastResp.hasNodes
    /\ \E j \in 1..Len(data.nodes) :
          \/ /\ lastResp.nodes[j].type = "event"
             /\ HasEventPrefix(data.nodes[j].event_id)
          \/ /\ lastResp.nodes[j].type # "event"
             /\ lastResp.nodes[j].event_id # Undefined
             /\ lastResp.nodes[j].poster_url = Undefined
             /\ data.nodes[j].poster_url = Null

(* ----------------------------- radius claims -------------------------- *)

Parsable(n) == n.starts_at.kind = "iso"
Dt(n) == Max2(0, n.starts_at.ts - now)
Radius(n) == RadiusForTime(n, now, horizonSec)
Band(dt) == IF dt <= DaySec THEN 1 ELSE IF dt <= WeekSec THEN 2 ELSE 3
RPlus(r, k) == << r[1] + k * r[2], r[2] >>
RWithin(lo, r, hi) == RLeq(RInt(lo), r) /\ RLeq(r, RInt(hi))
RInside(lo, r, hi) == RLess(RInt(lo), r) /\ RLess(r, RInt(hi))
Timed == { k \in 1..Len(eventNodes) : Parsable(eventNodes[k]) }

\* C6: Today is 130 + dt/24h * 60 in [130,190], Next 7 days is
\* 210 + (dt - 24h)/6d * 80 in [210,290], Later lies in [310,390]; a past
\* start gives exactly 130, two hours ahead lies inside (130,190), and no
\* radius falls into a gap between the bands.
C6_RadiusBands ==
    \A k \in Timed :
        LET dt == Dt(eventNodes[k])
            r == Radius(eventNodes[k])
        IN  /\ dt <= DaySec =>
                  r = Rat(130 * 1440 + dt, 1440) /\ RWithin(130, r, 190)
            /\ (DaySec < dt /\ dt <= WeekSec) =>
                  r = Rat(210 * 6480 + (dt - DaySec), 6480) /\ RWithin(210, r, 290)
            /\ dt > WeekSec => RWithin(310, r, 390)
            /\ eventNodes[k].starts_at.ts <= now => r = RInt(130)
            /\ dt = 2 * HourSec => RInside(130, r, 190)
            /\ ~RInside(190, r, 210)
            /\ ~RInside(290, r, 310)

\* a past event sits on 130 next to a Later event strictly inside its band
C6_Witness ==
    \E a, b \in Timed :
        /\ eventNodes[a].starts_at.ts < now
        /\ Radius(eventNodes[a]) = RInt(130)
        /\ Dt(eventNodes[b]) > WeekSec
        /\ RInside(310, Radius(eventNodes[b]), 390)

\* C7: a node without a parsable start gets radius 390, stays in the working
\* set, and the horizon is the one of the nodes with a parsable start.
C7_UnparsableStartIsOuterEdge ==
    /\ \A j \in EventIdx(data.nodes) :
          ~Parsable(data.nodes[j]) =>
              /\ Radius(data.nodes[j]) = RInt(390)
              /\ Cardinality(EventIdx(data.nodes)) <= TopN
                    => InSeq(data.nodes[j], eventNodes)
    /\ horizonSec = HorizonSec(SelectSeq(eventNodes, Parsable), RenderedAt)

\* a node with an unparsable string is displayed on 390 next to a node that
\* stretches the horizon
C7_Witness ==
    \E a, b \in 1..Len(eventNodes) :
        /\ eventNodes[a].starts_at.kind = "garbage"
        /\ Radius(eventNodes[a]) = RInt(390)
        /\ Parsable(eventNodes[b])
        /\ horizonSec > DaySec
        /\ horizonSec = eventNodes[b].starts_at.ts - RenderedAt

\* C9: at one time and horizon a later start never gives a smaller radius,
\* and a node of an earlier band has a strictly smaller radius than a node of
\* a later band.
C9_RadiusMonotone ==
    \A a, b \in Timed :
        /\ eventNodes[a].starts_at.ts <= eventNodes[b].starts_at.ts
              => RLeq(Radius(eventNodes[a]), Radius(eventNodes[b]))
        /\ Band(Dt(eventNodes[a])) < Band(Dt(eventNodes[b]))
              => RLess(Radius(eventNodes[a]), Radius(eventNodes[b]))

\* two events of the Today band, the later one strictly farther out
C9_Witness ==
    \E a, b \in Timed :
        /\ Dt(eventNodes[a]) < Dt(eventNodes[b])
        /\ Dt(eventNodes[b]) <= DaySec
        /\ RLess(Radius(eventNodes[a]), Radius(eventNodes[b]))

\* a is on the band boundary edge and b starts one second later
AcrossBoundary(a, b, edge) ==
    Dt(eventNodes[a]) = edge /\ Dt(eventNodes[b]) = edge + 1

\* C10 as stated: the radius one second after the 24h (the 7d) boundary
\* differs from the radius on the boundary by no more than a tolerance (1).
C10_ContinuousAtBoundaries ==
    \A a, b \in Timed :
        (AcrossBoundary(a, b, DaySec) \/ AcrossBoundary(a, b, WeekSec))
            => RLeq(Radius(eventNodes[b]), RPlus(Radius(eventNodes[a]), 1))

\* C10, amended: the radius is continuous inside a band and jumps over the gap
\* at a boundary: 190 on the 24h boundary and just above 210 one second
\* later, 290 on the 7d boundary and at least 310 one second later.
C10_JumpAtBoundaries ==
    \A a, b \in Timed :
        /\ AcrossBoundary(a, b, DaySec) =>
              /\ Radius(eventNodes[a]) = RInt(190)
              /\ RInside(210, Radius(eventNodes[b]), 211)
        /\ AcrossBoundary(a, b, WeekSec) =>
              /\ Radius(eventNodes[a]) = RInt(290)
              /\ RWithin(310, Radius(eventNodes[b]), 390)
        /\ (Dt(eventNodes[b]) = Dt(eventNodes[a]) + 1
               /\ Band(Dt(eventNodes[a])) = Band(Dt(eventNodes[b]))) =>
              /\ RLeq(Radius(eventNodes[a]), Radius(eventNodes[b]))
              /\ RLeq(Radius(eventNodes[b]), RPlus(Radius(eventNodes[a]), 1))

\* one event on the 24h boundary and one a second behind it are displayed
C10_Witness ==
    \E a, b \in Timed :
        /\ AcrossBoundary(a, b, DaySec)
        /\ Radius(eventNodes[a]) = RInt(190)
        /\ RLess(RInt(210), Radius(eventNodes[b]))

(* ------------------------ refetch specification ----------------------- *)

\* what the server answers in the refetch specification: the same event in
\* two payloads that differ in everything but its id
RefetchBodies == { BodyA, BodyC }

\* the userId changes and every fetch is answered and applied, in any order,
\* while the clock advances
NextRefetch ==
    \/ \E u \in UserIds : ChangeUserId(u)
    \/ \E i \in 1..Len(fetches) : \E b \in RefetchBodies : NetworkRespond(i, b)
    \/ \E i \in 1..Len(fetches) : ResJson(i)
    \/ \E i \in 1..Len(fetches) : ThenApply(i)
    \/ Tick

SpecRefetch == Init /\ [][NextRefetch]_vars

(* ----------------------------- angle claims --------------------------- *)

\* the node lists some fetch delivered that the state still holds: displayed,
\* last applied, or in a response not yet applied
Deliveries ==
    << data.nodes, lastResp.nodes >> \o [i \in 1..Len(fetches) |-> fetches[i].body.nodes]

\* P holds of every delivered node
EveryDelivered(P(_)) ==
    \A d \in 1..Len(Deliveries) : \A j \in 1..Len(Deliveries[d]) : P(Deliveries[d][j])

\* a fraction of a turn in [0, 1): the angle lies in [0, 2 * pi)
InTurn(a) == Len(a) = 3 /\ \A c \in 1..3 : a[c] \in 0..9999

\* C11: the angle of a displayed node lies in [0, 2*pi), and every delivered
\* node with the same id gets the identical angle, whatever its other fields,
\* its place in the payload, the fetch that delivered it and the time.
C11_AngleByIdAlone ==
    \A k \in 1..Len(eventNodes) :
        /\ InTurn(AngleForEvent(eventNodes[k]))
        /\ LET SameAngle(m) ==
                  m.id = eventNodes[k].id => AngleForEvent(m) = AngleForEvent(eventNodes[k])
           IN  EveryDelivered(SameAngle)

\* the first displayed node came with fetch 1; an hour later fetch 2 holds
\* the same id behind another node, with another score, start and event_id
C11_Witness ==
    /\ Len(fetches) = 2 /\ Len(eventNodes) >= 1 /\ now > 0
    /\ Len(fetches[2].body.nodes) = 2
    /\ LET n == eventNodes[1]
           m == fetches[2].body.nodes[2]
       IN  /\ m.id = n.id /\ m.score # n.score /\ m.starts_at # n.starts_at
           /\ fetches[2].body.nodes[1].id # n.id
           /\ AngleForEvent(m) = AngleForEvent(n)
           /\ AngleForEvent(fetches[2].body.nodes[1]) # AngleForEvent(n)

(* -------------------------------- size -------------------------------- *)

\* what 0 / 0 gives, and what x / 0 gives for x > 0 and x < 0
NaN == << 0, 0 >>
Infinity == << 1, 0 >>
NegInfinity == << -1, 0 >>
Finite(r) == r[2] # 0

\* Math.min(...scores), Math.max(...scores) of a non-empty working set
MathMin(evs) == CHOOSE m \in { evs[i].score : i \in 1..Len(evs) } :
                    \A i \in 1..Len(evs) : m <= evs[i].score
MathMax(evs) == CHOOSE m \in { evs[i].score : i \in 1..Len(evs) } :
                    \A i \in 1..Len(evs) : m >= evs[i].score

\* a size scale that ignores the score
NodeValScaleFlat(evs, s) == RInt(54)

\* nodeValScale(s) over the working set evs:
\* 60 * (0.4 + (s - min) / (max - min))
NodeValScale(evs, s) ==
    LET lo == MathMin(evs)
        hi == MathMax(evs)
    IN  IF hi = lo
        THEN IF s = lo THEN NaN ELSE IF s > lo THEN Infinity ELSE NegInfinity
        ELSE IF s >= lo THEN Rat(24 * (hi - lo) + 60 * (s - lo), hi - lo)
        ELSE << 24 * (hi - lo) + 60 * (s - lo), hi - lo >>

\* eventNodes.find(e => e.id === n.id)
Find(evs, id) ==
    IF \E i \in 1..Len(evs) : evs[i].id = id
    THEN << evs[CHOOSE i \in 1..Len(evs) :
                 evs[i].id = id /\ \A j \in 1..(i - 1) : evs[j].id # id] >>
    ELSE << >>

\* the radius accessor of forceCollide: (g ? nodeValScale(g.score) : 10) + 8
CollideRadius(evs, n) ==
    LET g == Find(evs, n.id)
    IN  RPlus(IF g # << >> THEN NodeValScale(evs, g[1].score) ELSE RInt(10), 8)

(* ----------------------------- size claims ---------------------------- *)

Size(k) == NodeValScale(eventNodes, eventNodes[k].score)

AllScoresEqual ==
    /\ eventNodes # << >>
    /\ \A a, b \in 1..Len(eventNodes) : eventNodes[a].score = eventNodes[b].score

\* C12: when every score of the working set is equal (one node included) the
\* normalized ratio is 0.5: every node's size is the same finite positive
\* number, 60 * (0.4 + 0.5) = 54, and the collision radius is finite too.
C12_EqualScoresMidpoint ==
    AllScoresEqual =>
        \A k \in 1..Len(eventNodes) :
            /\ Finite(Size(k))
            /\ Size(k) = RInt(54)
            /\ Finite(CollideRadius(eventNodes, eventNodes[k]))

\* C20: in a working set with at least two distinct scores the size is
\* 60 * (0.4 + (score - min) / (max - min)): 24 for the lowest score, 84 for
\* the highest, within [24, 84] for every node, and strictly larger for a
\* strictly higher score.
C20_SizeScale ==
    ~AllScoresEqual =>
        \A k \in 1..Len(eventNodes) :
            LET sk == eventNodes[k].score IN
            /\ \E a, b \in 1..Len(eventNodes) :
                  /\ \A j \in 1..Len(eventNodes) :
                        /\ eventNodes[a].score <= eventNodes[j].score
                        /\ eventNodes[j].score <= eventNodes[b].score
                  /\ Size(k) = RPlus(Rat(60 * (sk - eventNodes[a].score),
                                         eventNodes[b].score - eventNodes[a].score), 24)
                  /\ Size(a) = RInt(24)
                  /\ Size(b) = RInt(84)
            /\ RWithin(24, Size(k), 84)
            /\ \A j \in 1..Len(eventNodes) :
                  eventNodes[j].score > sk => RLess(Size(k), Size(j))

\* three displayed nodes of three different scores: the middle one lies
\* strictly between 24 and 84
C20_Witness ==
    \E a, b, c \in 1..Len(eventNodes) :
        /\ eventNodes[a].score < eventNodes[b].score
        /\ eventNodes[b].score < eventNodes[c].score
        /\ Size(a) = RInt(24) /\ Size(c) = RInt(84)
        /\ RInside(24, Size(b), 84)

(* -------------------------------- colour ------------------------------ *)

TOPIC_COLORS == <<
    "#1b9e77", "#d95f02", "#7570b3", "#e7298a",
    "#66a61e", "#e6ab02", "#a6761d", "#666666" >>

OTHER_TOPIC_COLOR == "#93c5fd"

\* white space of String.prototype.trim (the characters the payloads use)
IsSpace(c) == c \in { " ", "\t", "\n" }

RECURSIVE TrimStart(_)
TrimStart(s) ==
    IF s # << >> /\ IsSpace(Head(s)) THEN TrimStart(Tail(s)) ELSE s

RECURSIVE TrimEnd(_)
TrimEnd(s) ==
    IF s # << >> /\ IsSpace(s[Len(s)]) THEN TrimEnd(SubSeq(s, 1, Len(s) - 1)) ELSE s

\* a trim that keeps the white space at the end
TrimStartOnly(s) == TrimStart(s)

\* s.trim()
Trim(s) == TrimEnd(TrimStart(s))

\* s.toLowerCase() (ASCII letters)
ToLowerCase(s) ==
    [i \in 1..Len(s) |->
        IF ~IsSpace(s[i]) /\ CharCode(s[i]) \in 65..90
        THEN Chars[CharCode(s[i]) + 32 - 31] ELSE s[i]]

\* a topicColor that compares with "other" as written
TopicColorCaseSensitive(topic) ==
    IF ~Truthy(topic) THEN OTHER_TOPIC_COLOR
    ELSE LET t == Trim(String(topic)) IN
         IF Len(t) = 0 THEN OTHER_TOPIC_COLOR
         ELSE IF t = << "o", "t", "h", "e", "r" >> THEN OTHER_TOPIC_COLOR
         ELSE TOPIC_COLORS[WordMod(MathAbs(HashStr(t)), Len(TOPIC_COLORS)) + 1]

\* topicColor(topic)
TopicColor(topic) ==
    IF ~Truthy(topic) THEN OTHER_TOPIC_COLOR
    ELSE LET t == Trim(String(topic)) IN
         IF Len(t) = 0 THEN OTHER_TOPIC_COLOR
         ELSE IF ToLowerCase(t) = << "o", "t", "h", "e", "r" >> THEN OTHER_TOPIC_COLOR
         ELSE TOPIC_COLORS[WordMod(MathAbs(HashStr(t)), Len(TOPIC_COLORS)) + 1]

(* ----------------------------- colour claims -------------------------- *)

Palette == { TOPIC_COLORS[i] : i \in 1..Len(TOPIC_COLORS) }

\* the topic is missing, null, empty or nothing but white space
Blank(topic) ==
    topic \in { Undefined, Null, EmptyStr } \/ \A i \in 1..Len(topic) : IsSpace(topic[i])

\* the topic without the white space around it (a blank topic has none)
Trimmed(topic) ==
    IF Blank(topic) THEN << >>
    ELSE LET first == CHOOSE i \in 1..Len(topic) :
                          ~IsSpace(topic[i]) /\ \A j \in 1..(i - 1) : IsSpace(topic[j])
             last == CHOOSE i \in 1..Len(topic) :
                          ~IsSpace(topic[i]) /\ \A j \in (i + 1)..Len(topic) : IsSpace(topic[j])
         IN  SubSeq(topic, first, last)

\* the trimmed topic spells "other" in some letter case
IsOther(topic) ==
    LET t == Trimmed(topic) IN
    /\ Len(t) = 5
    /\ t[1] \in { "o", "O" } /\ t[2] \in { "t", "T" } /\ t[3] \in { "h", "H" }
    /\ t[4] \in { "e", "E" } /\ t[5] \in { "r", "R" }

\* C13: a displayed node whose topic is missing, null, empty, white space
\* only, or "other" in any letter case once trimmed gets the fallback colour
\* #93c5fd, and the fallback is none of the eight palette colours.
C13_FallbackColor ==
    /\ OTHER_TOPIC_COLOR = "#93c5fd"
    /\ Len(TOPIC_COLORS) = 8
    /\ OTHER_TOPIC_COLOR \notin Palette
    /\ \A k \in 1..Len(eventNodes) :
          (Blank(eventNodes[k].topic) \/ IsOther(eventNodes[k].topic))
              => TopicColor(eventNodes[k].topic) = OTHER_TOPIC_COLOR

\* displayed together: a node without a topic and a node whose topic is
\* "other" in mixed case inside white space, both in the fallback colour
C13_Witness ==
    \E a, b \in 1..Len(eventNodes) :
        /\ eventNodes[a].topic = Undefined
        /\ eventNodes[b].topic = << " ", "o", "T", "h", "E", "r", " " >>
        /\ TopicColor(eventNodes[a].topic) = OTHER_TOPIC_COLOR
        /\ TopicColor(eventNodes[b].topic) = OTHER_TOPIC_COLOR

\* C14: a displayed node whose trimmed topic is not empty and not "other"
\* gets the palette entry at |hash(trimmed topic)| mod 8, one of the eight
\* palette colours and never the fallback; every delivered node and every
\* topic a payload may carry with the same trimmed topic gets the same colour.
C14_HashedColor ==
    \A k \in 1..Len(eventNodes) :
        LET topic == eventNodes[k].topic IN
        (~Blank(topic) /\ ~IsOther(topic)) =>
            /\ TopicColor(topic) =
                  TOPIC_COLORS[WordMod(MathAbs(HashStr(Trimmed(topic))), 8) + 1]
            /\ TopicColor(topic) \in Palette
            /\ TopicColor(topic) # OTHER_TOPIC_COLOR
            /\ LET SameColor(m) ==
                      Trimmed(m.topic) = Trimmed(topic)
                          => TopicColor(m.topic) = TopicColor(topic)
               IN  EveryDelivered(SameColor)
            /\ \A t \in ProbeTopics :
                  Trimmed(t) = Trimmed(topic) => TopicColor(t) = TopicColor(topic)

\* "Music" of fetch 1 is displayed in a palette colour while fetch 2 holds a
\* node whose topic is "Music" inside white space, in the same colour
C14_Witness ==
    /\ Len(fetches) = 2
    /\ \E k \in 1..Len(eventNodes) :
          \E j \in 1..Len(fetches[2].body.nodes) :
              LET topic == eventNodes[k].topic
                  other == fetches[2].body.nodes[j].topic
              IN  /\ topic = << "M", "u", "s", "i", "c" >>
                  /\ other # topic /\ Trimmed(other) = topic
                  /\ TopicColor(topic) \in Palette
                  /\ TopicColor(other) = TopicColor(topic)

(* ------------------------------ saturation ---------------------------- *)

\* a clamp without the upper limit
ClampLow(v, lo, hi) == IF RLess(v, lo) THEN lo ELSE v

\* clamp(v, lo, hi) = Math.max(lo, Math.min(hi, v))
Clamp(v, lo, hi) ==
    LET m == IF RLess(hi, v) THEN hi ELSE v
    IN  IF RLess(m, lo) THEN lo ELSE m

\* n.social_count || 0
OrZero(c) == IF c.kind = "num" THEN c.val ELSE 0

\* drawNode: sat = clamp((n.social_count || 0) / 5, 0.4, 1.0), clamped once
\* more by applySaturation
Saturation(n) ==
    Clamp(Clamp(Rat(OrZero(n.social_count), 5), Rat(2, 5), RInt(1)), Rat(2, 5), RInt(1))

(* ------------------------------- drawing ------------------------------ *)

\* a node callback that pins the node where it drew it
DrawNodePinning(n, p, evs) ==
    [node |-> n,
     pos |-> [set |-> TRUE, x |-> IF p.set THEN p.x ELSE 0, y |-> IF p.set THEN p.y ELSE 0],
     circle |-> [x |-> IF p.set THEN p.x ELSE 0, y |-> IF p.set THEN p.y ELSE 0,
                 size |-> NodeValScale(evs, n.score), color |-> TopicColor(n.topic),
                 sat |-> Saturation(n),
                 hasPoster |-> Truthy(n.poster_url) /\ Trim(n.poster_url) # << >>,
                 label |-> n.type = "event"]]

\* drawNode(node, ctx, globalScale): the node and its position after the call,
\* and the disk it drew at (x || 0, y || 0)
DrawNode(n, p, evs) ==
    [node |-> n,
     pos |-> p,
     circle |-> [x |-> IF p.set THEN p.x ELSE 0, y |-> IF p.set THEN p.y ELSE 0,
                 size |-> NodeValScale(evs, n.score), color |-> TopicColor(n.topic),
                 sat |-> Saturation(n),
                 hasPoster |-> Truthy(n.poster_url) /\ Trim(n.poster_url) # << >>,
                 label |-> n.type = "event"]]

\* a string or null as a condition
TruthyItem(v) == v # "null" /\ v # ""

\* drawGuides(ctx, globalScale) with the isDark it closed over: rings at the
\* band midpoints, their labels, stroke and label colour
DrawGuides(dark) ==
    [stroke |-> IF TruthyItem(dark) THEN "#374151" ELSE "#eceef2",
     rings |-> [b \in 1..3 |-> Rat(RING_BANDS[b].min + RING_BANDS[b].max, 2)],
     labels |-> << "Today", "Next 7 days", "Later" >>,
     fill |-> IF ~TruthyItem(dark) THEN "--color-graph-label" ELSE "#80859a"]

\* the rendered force graph draws a frame: onRenderFramePre (drawGuides), then
\* nodeCanvasObject (drawNode) for every node of graphData (stored: history,
\* the theme persisted when the frame was drawn)
DrawFrame ==
    /\ GraphRendered
    /\ LET drawn == [k \in 1..Len(eventNodes) |-> DrawNode(eventNodes[k], pos[k], eventNodes)]
       IN  /\ frame' = [theme |-> themeColors,
                        circles |-> [k \in 1..Len(eventNodes) |-> drawn[k].circle],
                        guides |-> DrawGuides(isDark),
                        stored |-> theme.stored]
           /\ eventNodes' = [k \in 1..Len(eventNodes) |-> drawn[k].node]
           /\ pos' = [k \in 1..Len(eventNodes) |-> drawn[k].pos]
    /\ UNCHANGED << userId, mounted, themeColors, data, horizonSec,
                    now, fetches, errorLog, applied, lastResp, nav, onEventClick,
                    fg, forces, isDark, theme, page, store >>

(* ------------------------------- legend ------------------------------- *)

\* the collation weight of a character: white space, then other signs, then
\* digits, then letters whatever their case
Weight(c) ==
    IF IsSpace(c) THEN 0
    ELSE IF CharCode(c) \in 48..57 THEN 200 + CharCode(c)
    ELSE IF CharCode(c) \in 65..90 THEN 300 + CharCode(c) + 32
    ELSE IF CharCode(c) \in 97..122 THEN 300 + CharCode(c)
    ELSE 1 + CharCode(c)

\* the first difference in weight decides; a proper prefix comes first
RECURSIVE Primary(_, _)
Primary(a, b) ==
    IF a = << >> THEN (IF b = << >> THEN 0 ELSE 0 - 1)
    ELSE IF b = << >> THEN 1
    ELSE IF Weight(Head(a)) < Weight(Head(b)) THEN 0 - 1
    ELSE IF Weight(Head(a)) > Weight(Head(b)) THEN 1
    ELSE Primary(Tail(a), Tail(b))

\* equal weights throughout: at the first difference the lower case comes first
RECURSIVE Tertiary(_, _)
Tertiary(a, b) ==
    IF a = << >> \/ b = << >> THEN 0
    ELSE IF Head(a) = Head(b) THEN Tertiary(Tail(a), Tail(b))
    ELSE IF CharCode(Head(a)) > CharCode(Head(b)) THEN 0 - 1 ELSE 1

\* a.localeCompare(b) for ASCII letters, digits and blanks
LocaleCompare(a, b) ==
    IF Primary(a, b) # 0 THEN Primary(a, b) ELSE Tertiary(a, b)

\* new Set(list), Array.from: the first occurrences in order
RECURSIVE Distinct(_, _)
Distinct(done, rest) ==
    IF rest = << >> THEN done
    ELSE IF \E i \in 1..Len(done) : done[i] = Head(rest)
         THEN Distinct(done, Tail(rest))
         ELSE Distinct(Append(done, Head(rest)), Tail(rest))

RECURSIVE InsertTopic(_, _)
InsertTopic(sorted, x) ==
    IF sorted = << >> THEN << x >>
    ELSE IF LocaleCompare(Head(sorted), x) > 0
         THEN << x >> \o sorted
         ELSE << Head(sorted) >> \o InsertTopic(Tail(sorted), x)

\* .sort((a, b) => a.localeCompare(b))
RECURSIVE SortTopics(_, _)
SortTopics(done, rest) ==
    IF rest = << >> THEN done
    ELSE SortTopics(InsertTopic(done, Head(rest)), Tail(rest))

\* (n.topic || "Other").trim()
LegendName(n) ==
    Trim(IF Truthy(n.topic) THEN n.topic ELSE << "O", "t", "h", "e", "r" >>)

\* useMemo topicList
TopicList(evs) ==
    SortTopics(<< >>, Distinct(<< >>, [i \in 1..Len(evs) |-> LegendName(evs[i])]))

\* the topic chips of the legend and its "+n more" counter
Legend(evs) ==
    LET moreCount == Max2(0, Len(TopicList(evs)) - 5)
    IN  [chips |-> Take(TopicList(evs), 5), moreCount |-> moreCount,
         more |-> moreCount > 0]

(* -------------------------------- theme ------------------------------- *)

\* the value ThemeToggle persists for its state
Persisted(dark) == IF dark THEN "dark" ELSE "light"

\* resolveInitialTheme() and the shouldUseDark of applyInitialTheme(): the
\* stored choice if there is one, else the system preference
ResolveInitialTheme(stored, prefersDark) ==
    IF TruthyItem(stored) THEN stored = "dark" ELSE prefersDark

\* the media query's change handler: the state it leaves
MediaChange(stored, dark, matches) ==
    IF TruthyItem(stored) THEN dark ELSE matches

\* the MutationObserver of useThemeColors: a class change on <html> sets new
\* colours, and the render that follows reads isDark again for a new drawGuides
Observed(before, after, stored) ==
    IF mounted /\ themeColors # "null" /\ before # after THEN stored ELSE isDark

GraphUnchanged ==
    UNCHANGED << userId, mounted, themeColors, data, eventNodes, horizonSec, now,
                 fetches, errorLog, applied, lastResp, nav, onEventClick, frame,
                 fg, forces, pos, page, store >>

\* main.tsx: applyInitialTheme() before the first render
ApplyInitialTheme ==
    /\ ~theme.started
    /\ theme' = [theme EXCEPT !.started = TRUE,
                              !.rootDark = ResolveInitialTheme(theme.stored, theme.prefersDark)]
    /\ UNCHANGED isDark
    /\ GraphUnchanged

\* ThemeToggle mounts: useState(resolveInitialTheme), then both effects
ToggleMount ==
    /\ theme.started
    /\ theme.toggle = "unmounted"
    /\ LET dark == ResolveInitialTheme(theme.stored, theme.prefersDark)
       IN  /\ theme' = [theme EXCEPT !.toggle = "mounted", !.isDark = dark,
                                     !.rootDark = dark, !.stored = Persisted(dark)]
           /\ isDark' = Observed(theme.rootDark, dark, Persisted(dark))
    /\ GraphUnchanged

\* the user clicks the toggle: setIsDark(prev => !prev) and the effect
ToggleClick ==
    /\ theme.toggle = "mounted"
    /\ LET dark == ~theme.isDark
       IN  /\ theme' = [theme EXCEPT !.isDark = dark, !.rootDark = dark,
                                     !.stored = Persisted(dark), !.clicked = TRUE]
           /\ isDark' = Observed(theme.rootDark, dark, Persisted(dark))
    /\ GraphUnchanged

\* the system colour-scheme preference changes; a mounted ThemeToggle handles
\* the media query's change event
SystemChange ==
    /\ LET matches == ~theme.prefersDark
           dark == MediaChange(theme.stored, theme.isDark, matches)
       IN  IF theme.toggle = "mounted" /\ dark # theme.isDark
           THEN /\ theme' = [theme EXCEPT !.prefersDark = matches, !.isDark = dark,
                                          !.rootDark = dark, !.stored = Persisted(dark)]
                /\ isDark' = Observed(theme.rootDark, dark, Persisted(dark))
           ELSE /\ theme' = [theme EXCEPT !.prefersDark = matches]
                /\ UNCHANGED isDark
    /\ GraphUnchanged

\* the application starts, ThemeToggle mounts, the user toggles and the system
\* preference changes, while the graph resolves its colours and draws frames
NextTheme ==
    \/ ApplyInitialTheme
    \/ ToggleMount
    \/ ToggleClick
    \/ SystemChange
    \/ theme.started /\ ThemeResolve
    \/ fetches[1].pc = "fetch" /\ NetworkRespond(1, BodyA)
    \/ ResJson(1)
    \/ GraphRendered /\ ThenApply(1)
    \/ DrawFrame

SpecTheme == Init /\ [][NextTheme]_vars

(* ------------------------------ event page --------------------------- *)

OthersUnchanged ==
    UNCHANGED << userId, mounted, themeColors, data, eventNodes, horizonSec, now,
                 fetches, errorLog, applied, lastResp, nav, onEventClick, frame,
                 fg, forces, pos, isDark, theme >>

\* a request the page sends
Request(kind) == [kind |-> kind, pc |-> "sent", attending |-> FALSE]

\* focus, pageshow or a visibility change to visible: load()
Load ==
    /\ Len(page.reqs) < MaxRequests
    /\ page' = [page EXCEPT !.reqs = Append(@, Request("load"))]
    /\ UNCHANGED store
    /\ OthersUnchanged

\* onToggleAttend up to its await: leaveEvent(id) if joined, else joinEvent(id)
ToggleAttend ==
    /\ Len(page.reqs) < MaxRequests
    /\ page' = [page EXCEPT
                  !.reqs = Append(@, Request(IF page.joined THEN "leave" ELSE "join"))]
    /\ UNCHANGED store
    /\ OthersUnchanged

\* the server handles request i: GET reads the attendance, POST records it,
\* DELETE removes it
Serve(i) ==
    /\ i \in 1..Len(page.reqs)
    /\ page.reqs[i].pc = "sent"
    /\ page' = [page EXCEPT
                  !.reqs[i].pc = "served",
                  !.reqs[i].attending = page.server,
                  !.server = IF page.reqs[i].kind = "join" THEN TRUE
                             ELSE IF page.reqs[i].kind = "leave" THEN FALSE
                             ELSE @]
    /\ UNCHANGED store
    /\ OthersUnchanged

\* request i is refused (the server records nothing): request() throws, the
\* catch block keeps the state
Refuse(i) ==
    /\ i \in 1..Len(page.reqs)
    /\ page.reqs[i].pc = "sent"
    /\ page' = [page EXCEPT !.reqs[i].pc = "failed"]
    /\ UNCHANGED store
    /\ OthersUnchanged

\* the continuation after the await of request i: setJoined(!!res.attending),
\* setJoined(true) or setJoined(false)
JoinedAfter(i) ==
    IF page.reqs[i].kind = "load" THEN page.reqs[i].attending
    ELSE page.reqs[i].kind = "join"

\* the response of request i arrives
Deliver(i) ==
    /\ i \in 1..Len(page.reqs)
    /\ page.reqs[i].pc = "served"
    /\ page' = [page EXCEPT !.reqs[i].pc = "done", !.joined = JoinedAfter(i)]
    /\ UNCHANGED store
    /\ OthersUnchanged

NextPage ==
    \/ Load
    \/ ToggleAttend
    \/ \E i \in 1..MaxRequests : Serve(i)
    \/ \E i \in 1..MaxRequests : Refuse(i)
    \/ \E i \in 1..MaxRequests : Deliver(i)

SpecPage == Init /\ [][NextPage]_vars

\* no request is in flight
Quiet == \A i \in 1..Len(page.reqs) : page.reqs[i].pc \in { "done", "failed" }

\* C28: once every request has completed, joined is the attendance the
\* server holds, whatever the interleaving of loads, joins and leaves.
C28_JoinedMatchesServer == Quiet => page.joined = page.server

(* --------------------------- current-user store ----------------------- *)

\* the listener functions, the second of which throws, and the users (0: null)
Listeners == 1..3
Throws(l) == l = 2
Users == 0..2

GraphAndPageUnchanged ==
    UNCHANGED << userId, mounted, themeColors, data, eventNodes, horizonSec, now,
                 fetches, errorLog, applied, lastResp, nav, onEventClick, frame,
                 fg, forces, pos, isDark, theme, page >>

\* a loop without try/catch: the first throwing listener ends it
RECURSIVE NotifyUncaught(_, _)
NotifyUncaught(ls, u) ==
    IF ls = << >> THEN << >>
    ELSE IF Throws(Head(ls)) THEN << [cb |-> Head(ls), arg |-> u] >>
    ELSE << [cb |-> Head(ls), arg |-> u] >> \o NotifyUncaught(Tail(ls), u)

\* for (const cb of Array.from(listeners)) { try { cb(currentUser) } catch {} }:
\* the invocations made, in order
RECURSIVE Notify(_, _)
Notify(ls, u) ==
    IF ls = << >> THEN << >>
    ELSE << [cb |-> Head(ls), arg |-> u] >> \o Notify(Tail(ls), u)

\* listeners.add(l): a Set keeps insertion order and holds a value once
SetAdd(ls, l) == IF \E i \in 1..Len(ls) : ls[i] = l THEN ls ELSE Append(ls, l)

\* listeners.delete(l)
RECURSIVE SetDelete(_, _)
SetDelete(ls, l) ==
    IF ls = << >> THEN << >>
    ELSE IF Head(ls) = l THEN SetDelete(Tail(ls), l)
    ELSE << Head(ls) >> \o SetDelete(Tail(ls), l)

\* subscribe(l)
Subscribe(l) ==
    /\ store' = [store EXCEPT !.listeners = SetAdd(@, l),
                              !.active = @ \cup { l }, !.ended = @ \ { l }]
    /\ store' # store
    /\ GraphAndPageUnchanged

\* a function returned by subscribe(l) is called
Unsubscribe(l) ==
    /\ l \in store.active \cup store.ended
    /\ store' = [store EXCEPT !.listeners = SetDelete(@, l),
                              !.active = @ \ { l }, !.ended = @ \cup { l }]
    /\ store' # store
    /\ GraphAndPageUnchanged

\* setCurrentUser(u)
SetCurrentUser(u) ==
    /\ store' = [store EXCEPT
                   !.currentUser = u,
                   !.last = [made |-> TRUE, arg |-> u, active |-> store.active,
                             ended |-> store.ended,
                             calls |-> Notify(store.listeners, u)]]
    /\ store' # store
    /\ GraphAndPageUnchanged

NextStore ==
    \/ \E l \in Listeners : Subscribe(l)
    \/ \E l \in Listeners : Unsubscribe(l)
    \/ \E u \in Users : SetCurrentUser(u)

SpecStore == Init /\ [][NextStore]_vars

\* getCurrentUser()
GetCurrentUser == store.currentUser

\* C29: the last setCurrentUser(u) invoked every listener subscribed when it
\* started exactly once, with u, a throwing listener among them or not; it
\* invoked no other listener, so none whose unsubscribe function had
\* returned; and getCurrentUser() returns u.
C29_NotifyEachOnce ==
    store.last.made =>
        /\ \A l \in store.last.active :
              /\ Cardinality({ i \in 1..Len(store.last.calls) :
                                  store.last.calls[i].cb = l }) = 1
              /\ \A i \in 1..Len(store.last.calls) :
                    store.last.calls[i].cb = l => store.last.calls[i].arg = store.last.arg
        /\ \A i \in 1..Len(store.last.calls) :
              /\ store.last.calls[i].cb \in store.last.active
              /\ store.last.calls[i].cb \notin store.last.ended
        /\ GetCurrentUser = store.last.arg

\* the throwing listener was invoked first and the one subscribed after it
\* still got the user; the third, unsubscribed before the call, got nothing
C29_Witness ==
    /\ store.last.made
    /\ store.last.arg = 2
    /\ Len(store.last.calls) = 2
    /\ Throws(store.last.calls[1].cb)
    /\ store.last.calls[2] = [cb |-> 1, arg |-> 2]
    /\ 3 \in store.last.ended
    /\ GetCurrentUser = 2

(* ------------------------- click specification ------------------------ *)

\* a type property the payload omits
NoType == "<undefined>"

ClickIds == ProbeIds \cup { Undefined }
ClickTypes == ProbeTypes \cup { NoType }

\* a payload of two nodes: one with the given id and type and the higher
\* score, and the event "event:2"
PairBody(id, type) ==
    LET ns == << Node(id, type, 2, Iso(2 * HourSec), Null, Undefined),
                 Node(Id2, "event", 1, Iso(3 * DaySec), Null, Undefined) >>
    IN  GraphResponse(ns, << >>, Mirror(ns), {})

\* the fetch of the mounted component answers with a pair payload, the theme
\* lookup resolves, the parent changes the callback prop, the graph draws
\* frames and the user clicks nodes, in any order
NextClick ==
    \/ /\ fetches[1].pc = "fetch"
       /\ \E id \in ClickIds : \E type \in ClickTypes :
             NetworkRespond(1, PairBody(id, type))
    \/ ResJson(1)
    \/ ThenApply(1)
    \/ ThemeResolve
    \/ \E cb \in { "absent", "supplied" } : ChangeOnEventClick(cb)
    \/ \E k \in 1..TopN : HandleNodeClick(k)
    \/ DrawFrame

SpecClick == Init /\ [][NextClick]_vars

(* ------------------------------ click claims -------------------------- *)

HexVal(c) == (CHOOSE i \in 1..Len(Hex) : Hex[i] = c) - 1

\* the string a percent-encoded string stands for
RECURSIVE Decoded(_)
Decoded(s) ==
    IF s = << >> THEN << >>
    ELSE IF Head(s) = "%"
         THEN << Chars[16 * HexVal(s[2]) + HexVal(s[3]) - 31] >> \o Decoded(Slice(s, 3))
         ELSE << Head(s) >> \o Decoded(Tail(s))

\* a character that may stand in a path segment as it is
PathSafe(c) ==
    c \in { Chars[i] : i \in (17..26) \cup (34..59) \cup (66..91) }
        \cup { "-", "_", ".", "!", "~", "*", "'", "(", ")", "%" }

\* the location is the event page path followed by the encoded id
IsEventPage(href, id) ==
    /\ StartsWith(href, EventPagePath)
    /\ \A i \in (Len(EventPagePath) + 1)..Len(href) : PathSafe(href[i])
    /\ Decoded(Slice(href, Len(EventPagePath))) = id

HasEventId(n) == n.event_id \notin { Undefined, Null, EmptyStr }

\* C15: a click on an event node with a non-empty derived event_id makes
\* exactly one navigation: the callback is called with the id when the
\* callback was supplied, otherwise the location becomes
\* /events/eventpage/<encoded id>; never both.  The handler does neither for
\* a node that is not an event.
C15_ClickNavigatesOnce ==
    /\ (nav.node.type = "event" /\ HasEventId(nav.node)) =>
          /\ Len(nav.calls) + Len(nav.hrefs) = 1
          /\ nav.cb = "supplied" => nav.calls = << nav.node.event_id >>
          /\ nav.cb = "absent" =>
                /\ Len(nav.hrefs) = 1
                /\ IsEventPage(nav.hrefs[1], nav.node.event_id)
    /\ \A j \in 1..Len(data.nodes) : \A cb \in { "absent", "supplied" } :
          data.nodes[j].type # "event" =>
              /\ Handle(data.nodes[j], cb).calls = << >>
              /\ Handle(data.nodes[j], cb).hrefs = << >>

\* the clicked event's id needs encoding; the click went to the location,
\* and a click on the same node with the callback supplied is possible too
C15_Witness ==
    /\ nav.node.type = "event" /\ nav.cb = "absent"
    /\ nav.node.event_id = EventPrefix \o << "3" >>
    /\ nav.hrefs = << EventPagePath \o << "e", "v", "e", "n", "t", "%", "3", "A", "3" >> >>
    /\ nav.calls = << >>
    /\ onEventClick = "supplied"

\* C16: a click on an event node without an event_id (undefined, null or
\* empty) causes no navigation: no call of the callback and no change of the
\* location, whichever the callback prop; the handler has no step that throws.
C16_NoIdNoNavigation ==
    /\ (nav.node.type = "event" /\ ~HasEventId(nav.node)) =>
          nav.calls = << >> /\ nav.hrefs = << >>
    /\ \A k \in 1..Len(eventNodes) : \A cb \in { "absent", "supplied" } :
          \A e \in { Undefined, Null, EmptyStr } :
              LET r == Handle([eventNodes[k] EXCEPT !.event_id = e], cb)
              IN  r.calls = << >> /\ r.hrefs = << >>

\* the event whose id is "event:" alone (derived event_id "") was clicked
\* with the callback supplied, and nothing happened
C16_Witness ==
    /\ nav.node.type = "event" /\ nav.node.id = EventPrefix
    /\ nav.node.event_id = EmptyStr
    /\ nav.cb = "supplied"
    /\ nav.calls = << >> /\ nav.hrefs = << >>

\* C17: a frame of the force graph is drawn, and a node of it clicked, only
\* after the theme lookup has resolved: no frame shows an unresolved theme,
\* in whatever order the lookup and the fetch complete.
C17_NoFrameBeforeTheme ==
    /\ GraphRendered => themeColors # "null"
    /\ frame # NoFrame => themeColors # "null" /\ frame.theme # "null"
    /\ nav # NoNav => themeColors # "null"

\* a frame was drawn with the resolved theme while the fetch is still pending
C17_Witness ==
    /\ frame # NoFrame /\ frame.theme = "resolved"
    /\ Pending(1) /\ eventNodes = << >>

(* -------------------------- malformed node claim ---------------------- *)

\* the node has its required id and type
WellFormed(n) == n.id # Undefined /\ n.id # Null /\ n.type # NoType

\* C18: a node of the payload without id or without type is not in the
\* working set, the well-formed event nodes of the same payload are (up to
\* TopN of them), and the layout of no displayed node throws.
C18_MalformedExcluded ==
    lastResp.hasNodes =>
        /\ \A k \in 1..Len(eventNodes) : WellFormed(eventNodes[k])
        /\ \A j \in 1..Len(lastResp.nodes) :
              (WellFormed(lastResp.nodes[j]) /\ lastResp.nodes[j].type = "event"
                  /\ Len(lastResp.nodes) <= TopN)
                  => \E k \in 1..Len(eventNodes) : eventNodes[k].id = lastResp.nodes[j].id
        /\ \A k \in 1..Len(eventNodes) : AngleForEvent(eventNodes[k]) # TypeError

(* ---------------------------- later band claim ------------------------ *)

\* C19: in the Later band (7d < dt <= horizon) the radius is 310 + 80 times
\* the position of dt within (7d, horizon]: near 310 just after 7d, 390 at
\* the horizon and beyond it.
C19_LaterBandInterpolation ==
    \A k \in Timed :
        LET dt == Dt(eventNodes[k])
            r == Radius(eventNodes[k])
        IN  dt > WeekSec =>
                IF dt >= horizonSec THEN r = RInt(390)
                ELSE r = Rat(310 * (horizonSec - WeekSec) + 80 * (dt - WeekSec),
                             horizonSec - WeekSec)

(* --------------------------- saturation claim ------------------------- *)

\* the social count of a displayed node, 0 when absent
Social(k) ==
    IF eventNodes[k].social_count.kind = "num" THEN eventNodes[k].social_count.val ELSE 0

\* C21: the saturation of a displayed node is social_count / 5 (0 when the
\* count is absent) clamped to [0.4, 1.0]: always within [0.4, 1.0], 0.4 up to
\* a count of 2, 1.0 from a count of 5, and never smaller for a larger count.
C21_SaturationClamp ==
    \A k \in 1..Len(eventNodes) :
        LET sat == Saturation(eventNodes[k]) IN
        /\ RLeq(Rat(2, 5), sat) /\ RLeq(sat, RInt(1))
        /\ Social(k) <= 2 => sat = Rat(2, 5)
        /\ Social(k) >= 5 => sat = RInt(1)
        /\ Social(k) \in 3..4 => sat = Rat(Social(k), 5)
        /\ \A j \in 1..Len(eventNodes) :
              Social(j) <= Social(k) => RLeq(Saturation(eventNodes[j]), sat)

\* displayed together: a node without a count at 0.4 and one far above 5 at 1.0
C21_Witness ==
    \E a, b \in 1..Len(eventNodes) :
        /\ eventNodes[a].social_count = NoCount
        /\ Saturation(eventNodes[a]) = Rat(2, 5)
        /\ eventNodes[b].social_count = Count(100)
        /\ Saturation(eventNodes[b]) = RInt(1)

(* ------------------------- the graph on screen ------------------------ *)

\* the places a simulation tick may move the nodes to
Layouts == { << 0, 0 >>, << 12, -7 >> }

\* a tick of the simulation engine: it writes x and y of every node of graphData
SimTick(d) ==
    /\ mounted
    /\ fg # 0
    /\ eventNodes # << >>
    /\ pos' = [k \in 1..Len(eventNodes) |-> [set |-> TRUE, x |-> d[1] * k, y |-> d[2] * k]]
    /\ pos' # pos
    /\ UNCHANGED << userId, mounted, themeColors, data, eventNodes, horizonSec,
                    now, fetches, errorLog, applied, lastResp, nav, onEventClick,
                    frame, fg, forces, isDark, theme, page, store >>

\* what the server may answer while the graph is on screen
GraphBodies == { BodyA, BodyC }

\* the component on screen. The mount effects run before any response can be
\* handled: useThemeColors sets the colours in its mount effect (the container
\* div is always rendered, so ref.current is set), and that update is rendered
\* before the render of any later setData.
NextGraph ==
    \/ ThemeResolve
    \/ \E u \in UserIds : ChangeUserId(u)
    \/ \E i \in 1..Len(fetches) : \E b \in GraphBodies : NetworkRespond(i, b)
    \/ \E i \in 1..Len(fetches) : ResJson(i)
    \/ \E i \in 1..Len(fetches) : GraphRendered /\ ThenApply(i)
    \/ \E d \in Layouts : SimTick(d)
    \/ DrawFrame

SpecGraph == Init /\ [][NextGraph]_vars

(* ------------------------------ force claims -------------------------- *)

\* C22: once a payload has changed the working set, the forces registered on
\* the engine are the ones built from the working set (and with it the size
\* scale) and the horizon now displayed, never those of an earlier payload;
\* and the engine, once created, stays the same instance.
C22_ForcesFollowWorkingSet ==
    /\ [](fg # 0 /\ applied # << >> =>
            forces = [registered |-> TRUE, evs |-> eventNodes, horizon |-> horizonSec])
    /\ [][fg # 0 => fg' = fg]_vars

\* a second payload replaced the working set and the forces followed it
C22_Witness ==
    /\ fg # 0
    /\ Len(applied) = 2
    /\ lastResp = BodyC
    /\ forces.registered
    /\ forces.evs = eventNodes
    /\ forces.evs[1].id = Id2
    /\ forces.horizon = horizonSec

\* the accessors of the registered forces, for a node n at time t

\* an x accessor without the type test
TxUntyped(f, n, t) ==
    [zero |-> FALSE, fn |-> "cos", a |-> AngleForEvent(n),
     r |-> RadiusForTime(n, t, f.horizon)]

\* tx: 0 for a node that is not an event, else Math.cos(a) * r
Tx(f, n, t) ==
    IF n.type # "event" THEN [zero |-> TRUE, fn |-> "cos", a |-> << >>, r |-> RInt(0)]
    ELSE [zero |-> FALSE, fn |-> "cos", a |-> AngleForEvent(n),
          r |-> RadiusForTime(n, t, f.horizon)]

\* ty: 0 for a node that is not an event, else Math.sin(a) * r
Ty(f, n, t) ==
    IF n.type # "event" THEN [zero |-> TRUE, fn |-> "sin", a |-> << >>, r |-> RInt(0)]
    ELSE [zero |-> FALSE, fn |-> "sin", a |-> AngleForEvent(n),
          r |-> RadiusForTime(n, t, f.horizon)]

\* the radius accessor of forceRadial: (n) => radiusForTime(n), for every node
RadialRadius(f, n, t) == RadiusForTime(n, t, f.horizon)

\* the nodes of the displayed payload that are not events
NonEvents == { j \in 1..Len(data.nodes) : data.nodes[j].type # "event" }

C24_DrawingLeavesNodes ==
    /\ [][frame' # frame => eventNodes' = eventNodes /\ pos' = pos]_vars
    /\ [][eventNodes' # eventNodes => applied' # applied]_vars
    /\ [][pos' # pos =>
            \/ applied' # applied
            \/ \E d \in Layouts : \A k \in 1..Len(pos') :
                  pos'[k] = [set |-> TRUE, x |-> d[1] * k, y |-> d[2] * k]]_vars

\* a frame drew an enriched node where the simulation had put it, and the
\* node is still there
C24_Witness ==
    /\ frame # NoFrame
    /\ \E k \in 1..Len(eventNodes) :
          /\ k <= Len(frame.circles)
          /\ pos[k] = [set |-> TRUE, x |-> 12 * k, y |-> (0 - 7) * k]
          /\ frame.circles[k].x = pos[k].x
          /\ frame.circles[k].y = pos[k].y
          /\ eventNodes[k].event_id = << "1" >>

\* the guide colours
DarkGuide == "#374151"
LightGuide == "#eceef2"

\* C25: every frame draws the rings at 160, 250 and 350 with the labels
\* Today, Next 7 days, Later, in the dark guide colour exactly when the theme
\* persisted at that moment is dark and in the light guide colour when it is
\* light.
C25_GuidesFollowTheme ==
    frame # NoFrame =>
        /\ frame.guides.rings = << RInt(160), RInt(250), RInt(350) >>
        /\ frame.guides.labels = << "Today", "Next 7 days", "Later" >>
        /\ frame.guides.stroke = DarkGuide <=> frame.stored = "dark"
        /\ frame.stored = "light" => frame.guides.stroke = LightGuide

(* ------------------------------ legend claim -------------------------- *)

\* the topic of a node as section 4.4 tells topics apart: trimmed and case
\* sensitive, the missing, empty and "other" topics being the uncategorized one
TopicOf(n) ==
    IF Blank(n.topic) \/ IsOther(n.topic) THEN << "<uncategorized>" >> ELSE Trimmed(n.topic)

\* k: the number of distinct topics in the working set
TopicCount == Cardinality({ TopicOf(eventNodes[i]) : i \in 1..Len(eventNodes) })

\* C26: the legend shows min(5, k) chips for the k distinct topics of the
\* working set and the counter k - 5 exactly when k > 5, so that chips plus
\* counter is k; every chip is the topic of a node of the working set.
C26_LegendCounts ==
    LET l == Legend(eventNodes)
        k == TopicCount
    IN  /\ Len(l.chips) = Min2(5, k)
        /\ l.more <=> k > 5
        /\ l.more => l.moreCount = k - 5
        /\ Len(l.chips) + (IF l.more THEN l.moreCount ELSE 0) = k
        /\ \A c \in 1..Len(l.chips) :
              \E i \in 1..Len(eventNodes) : LegendName(eventNodes[i]) = l.chips[c]

(* --------------------------- userId change claim ---------------------- *)

\* every fetch the component started has resolved and delivered its payload
AllResolved == \A i \in 1..Len(fetches) : fetches[i].pc = "done"

\* C27: after userId changed while a fetch was in flight, once every fetch
\* has resolved the displayed graph is the one applied from the fetch for the
\* current userId, whichever response arrived first.
C27_LatestUserIdWins ==
    (Len(fetches) > 1 /\ AllResolved /\ applied # << >>) =>
        /\ fetches[applied[Len(applied)].fetch].userId = userId
        /\ applied[Len(applied)].fetch = Len(fetches)

(* ------------------------------ theme claim --------------------------- *)

\* C30: as long as the user has not clicked the toggle, the theme of the
\* mounted ThemeToggle (its state, the class on <html>) is the system
\* preference, also after the preference changed.
C30_FollowsSystemUntilChoice ==
    (theme.toggle = "mounted" /\ ~theme.clicked) =>
        /\ theme.isDark = theme.prefersDark
        /\ theme.rootDark = theme.prefersDark

====
